---------------------------- MODULE Spec2Model ----------------------------
(***************************************************************************)
(* Frame-synchronized scheduling of einouqo/use-raf: the primitives        *)
(* setFrame, setTimeoutFrame and setIntervalFrame of @use-raf/skd and the   *)
(* controlled loop useRafLoop of @use-raf/loop, over a host that offers    *)
(* requestAnimationFrame / cancelAnimationFrame and setTimeout /           *)
(* clearTimeout.  JavaScript is single threaded: every host dispatch (one  *)
(* timer callback, one repaint callback) and every call made by the user   *)
(* runs to completion and is one action.                                   *)
(***************************************************************************)
EXTENDS Integers, FiniteSets, Sequences, TLC

\* ------------------------------------------------------------------ bounds
MaxTime == 7        \* host clock runs 0..MaxTime (milliseconds)
MaxIds == 6         \* native ids handed out by the host: 1..MaxIds
MaxDelay == 2       \* delays / periods / throttles passed by the caller: 0..MaxDelay
MaxCancels == 2     \* times the user calls one schedule's Cancel
MaxTimerTime == 4   \* host clock when the timer is mounted: 0..MaxTimerTime
MaxTimerIds == 8    \* native ids when the timer is mounted: 1..MaxTimerIds
MaxDuration == 3    \* durations of the timer: 1..MaxDuration
MaxRenders == 1     \* re-renders of the component that holds the loop
MaxSets == 3        \* calls of the setter of useRafState
MaxValue == 2       \* plain values given to the setter: 0..MaxValue
MaxTimeoutRenders == 2  \* re-renders of the component that holds the timeout
MaxPairTime == 3    \* clock of the host that runs two schedules: 0..MaxPairTime
MaxPairIds == 4     \* native ids of the host that runs two schedules: 1..MaxPairIds
MaxFrame == 4       \* repaint intervals of the regular host: 1..MaxFrame
MaxPeriod == 6      \* periods of the interval on the regular host: 1..MaxPeriod
MaxFrameTime == 18  \* clock of the regular host: 0..MaxFrameTime
MaxFrameIds == 8    \* native ids of the regular host: 1..MaxFrameIds
MaxCalls == 3       \* calls the user makes on the timer
MaxNotes == 3       \* notifications of the loop that keeps going
MaxRunTime == 3     \* clock of the host of the loop that keeps going: 0..MaxRunTime

Scheds == {"s1"}            \* the schedules made with @use-raf/skd
Kinds == {"frame", "timeout", "interval"}
Delays == 0..MaxDelay
Behaviours == {"return", "raise", "cancel"}          \* what an interval handler does
LoopBehaviours == {"return", "raise", "stop", "start", "restart"}

VARIABLES
  now,        \* host clock (performance.now())
  lastFrame,  \* timestamp of the last repaint (-1: none yet)
  frameEvery, \* repaint interval of a host that repaints regularly (0: any time)
  nextId,     \* next native id the host hands out
  timers,     \* pending setTimeout registrations: [id, due, delay, k, o]
  rafs,       \* pending requestAnimationFrame registrations: [id, k, o]
  queue,      \* callbacks of the repaint being dispatched, not yet run
  frameOf,    \* setTimeoutFrame: timer id -> id held by frame.cancel (0: undefined)
  sched,      \* the skd schedules, by name
  loop,       \* the useRafLoop instance
  timer,      \* the useRafTimer instance built on the loop
  rafState,   \* the useRafState instance
  frameTimeout, \* the useFrameTimeout instance
  op          \* the step that led here: the call the user made or the host dispatch

vars == <<now, lastFrame, frameEvery, nextId, timers, rafs, queue, frameOf, sched, loop, timer, rafState,
          frameTimeout, op>>

\* A Cancel closure: of setFrame ("frame", the raf id), of setTimeoutFrame
\* ("tf", the timer id; its frame.cancel is frameOf[id]), or undefined.
NoCancel == [t |-> "none", id |-> 0]

\* The mutable part of the world the library's functions read and write.
Cur ==
  [nextId |-> nextId, timers |-> timers, rafs |-> rafs, queue |-> queue,
   frameOf |-> frameOf, sched |-> sched, loop |-> loop, timer |-> timer,
   rafState |-> rafState, frameTimeout |-> frameTimeout]

\* The last id the host hands out and the last instant of its clock.
IdLimit ==
  IF timer.mounted THEN MaxTimerIds
  ELSE IF frameEvery > 0 THEN MaxFrameIds
  ELSE IF Cardinality(DOMAIN sched) > 1 THEN MaxPairIds
  ELSE MaxIds
TimeLimit ==
  IF timer.mounted THEN MaxTimerTime
  ELSE IF frameEvery > 0 THEN MaxFrameTime
  ELSE IF Cardinality(DOMAIN sched) > 1 THEN MaxPairTime
  ELSE MaxTime

Commit(W) ==
  /\ W.nextId <= IdLimit + 1
  /\ nextId' = W.nextId
  /\ timers' = W.timers
  /\ rafs' = W.rafs
  /\ queue' = W.queue
  /\ frameOf' = W.frameOf
  /\ sched' = W.sched
  /\ loop' = W.loop
  /\ timer' = W.timer
  /\ rafState' = W.rafState
  /\ frameTimeout' = W.frameTimeout
  /\ UNCHANGED frameEvery

\* ------------------------------------------------------------ host natives
\* requestAnimationFrame(cb): the id is W.nextId.
RequestAnimationFrame(W, k, o) ==
  [W EXCEPT !.rafs = @ \cup {[id |-> W.nextId, k |-> k, o |-> o]},
            !.nextId = @ + 1]

\* cancelAnimationFrame(id): a callback of the running repaint that has not
\* run yet is cancelled too; an id that is not pending is ignored.
CancelAnimationFrame(W, id) ==
  [W EXCEPT !.rafs = {r \in @ : r.id # id},
            !.queue = {r \in @ : r.id # id}]

\* setTimeout(cb, delay): the id is W.nextId; an omitted delay is 0.
SetTimeout(W, k, o, delay) ==
  [W EXCEPT !.timers = @ \cup {[id |-> W.nextId, due |-> now + delay, delay |-> delay,
                                k |-> k, o |-> o]},
            !.nextId = @ + 1]

ClearTimeout(W, id) ==
  [W EXCEPT !.timers = {t \in @ : t.id # id}]


\* ------------------------------------------------------------ @use-raf/skd
\* setFrame(callback): requestAnimationFrame(callback); the returned Cancel
\* is SetFrameCancel of the id (W.nextId before the call).
SetFrame(W, k, o) == RequestAnimationFrame(W, k, o)

SetFrameCancel(W, id) == CancelAnimationFrame(W, id)

\* setTimeoutFrame that arms its timer without the delay.
SetTimeoutFrameNoDelay(W, o, delay) ==
  LET W1 == SetTimeout(W, "tf", o, 0)
  IN  [W1 EXCEPT !.frameOf = @ @@ (W.nextId :> 0)]

\* setTimeoutFrame(handler, delay): frame = {cancel: undefined}; the timer;
\* the returned Cancel is SetTimeoutFrameCancel of the timer id.
SetTimeoutFrame(W, o, delay) ==
  LET W1 == SetTimeout(W, "tf", o, delay)
  IN  [W1 EXCEPT !.frameOf = @ @@ (W.nextId :> 0)]

\* The timer callback of a setTimeoutFrame armed with setInterval: the timer
\* stays armed after it fired.
TimeoutCallbackRepeats(W, t) ==
  LET W1 == SetFrame(W, "tfFrame", t.o)
  IN  [W1 EXCEPT !.frameOf[t.id] = W.nextId, !.timers = @ \cup {t}]

\* The timer callback of setTimeoutFrame, were it to invoke the handler
\* itself instead of requesting a repaint.
TimeoutCallbackInvokes(W, t) == [W EXCEPT !.sched[t.o].calls = @ + 1]

\* The timer callback of setTimeoutFrame: frame.cancel = setFrame(...).
TimeoutCallback(W, t) ==
  LET W1 == SetFrame(W, "tfFrame", t.o)
  IN  [W1 EXCEPT !.frameOf[t.id] = W.nextId]

\* A Cancel that forgets frame.cancel: clearTimeout(timeout) only.
CancelTimerOnly(W, id) == ClearTimeout(W, id)

\* A Cancel that forgets the timer: frame.cancel?.() only.
CancelFrameOnly(W, id) ==
  IF W.frameOf[id] # 0 THEN SetFrameCancel(W, W.frameOf[id]) ELSE W

\* A Cancel whose frame is shared by every setTimeoutFrame: it cancels the
\* repaint callback of whichever schedule registered one.
CancelSharedFrame(W, id) ==
  LET W1 == ClearTimeout(W, id)
  IN  [W1 EXCEPT !.rafs = {r \in @ : r.k # "tfFrame"},
                 !.queue = {r \in @ : r.k # "tfFrame"}]

\* The Cancel returned by setTimeoutFrame: clearTimeout(timeout); frame.cancel?.()
SetTimeoutFrameCancel(W, id) ==
  LET W1 == ClearTimeout(W, id)
  IN  IF W.frameOf[id] # 0 THEN SetFrameCancel(W1, W.frameOf[id]) ELSE W1

\* Calling a Cancel closure.
CallCancel(W, h) ==
  CASE h.t = "frame" -> SetFrameCancel(W, h.id)
    [] h.t = "tf" -> SetTimeoutFrameCancel(W, h.id)
    [] OTHER -> W

\* document.timeline.currentTime: the timestamp of the last repaint.
TimelineCurrentTime == IF lastFrame < 0 THEN 0 ELSE lastFrame

NoSched ==
  [kind |-> "none", delay |-> 0, started |-> 0, cancel |-> NoCancel,
   calls |-> 0, at |-> 0, ncancel |-> 0, did |-> "none", raised |-> FALSE]

\* setIntervalFrame(handler, delay): started, then timeout.cancel =
\* setTimeoutFrame(tick, delay).  clock: whether the host exposes
\* document.timeline ("timeline") or only performance.now() ("performance").
SetIntervalFrame(W, s, delay, clock) ==
  LET started == IF clock = "timeline" THEN TimelineCurrentTime ELSE now
      W1 == SetTimeoutFrame(W, s, delay)
  IN  [W1 EXCEPT !.sched[s] =
         [NoSched EXCEPT !.kind = "interval", !.delay = delay, !.started = started,
                         !.cancel = [t |-> "tf", id |-> W.nextId], !.at = now]]

\* The user's handler of schedule s runs (single-shot kinds: it returns or
\* raises, with the same effect on the schedule).
Handler(W, s) == [W EXCEPT !.sched[s].calls = @ + 1]

\* The user's handler of an interval: it returns, raises, or calls the
\* interval's Cancel (() => timeout.cancel?.()) and returns.
IntervalHandler(W, s, beh) ==
  LET W1 == [Handler(W, s) EXCEPT !.sched[s].did = beh,
                                  !.sched[s].raised = @ \/ beh = "raise"]
  IN  IF beh = "cancel" THEN CallCancel(W1, W1.sched[s].cancel) ELSE W1

\* tick without drift correction: the next iteration a whole delay later.
TickNoDrift(W, s, timestamp, beh) ==
  LET delay == W.sched[s].delay
      W1 == IntervalHandler(W, s, beh)
      W2 == SetTimeoutFrame(W1, s, delay)
  IN  [W2 EXCEPT !.sched[s].cancel = [t |-> "tf", id |-> W1.nextId]]

\* tick without try / finally: a handler that raises ends the chain.
TickFailStop(W, s, timestamp, beh) ==
  LET delay == W.sched[s].delay
      elapsed == timestamp - W.sched[s].started
      drift == IF delay > 0 THEN elapsed % delay ELSE 0
      after == delay - drift
      W1 == IntervalHandler(W, s, beh)
      W2 == SetTimeoutFrame(W1, s, after)
  IN  IF beh = "raise" THEN W1
      ELSE [W2 EXCEPT !.sched[s].cancel = [t |-> "tf", id |-> W1.nextId]]

\* tick that arms the next iteration before the handler and again after it.
TickArmsTwice(W, s, timestamp, beh) ==
  LET delay == W.sched[s].delay
      elapsed == timestamp - W.sched[s].started
      drift == IF delay > 0 THEN elapsed % delay ELSE 0
      after == delay - drift
      W1 == IntervalHandler(SetTimeoutFrame(W, s, after), s, beh)
      W2 == SetTimeoutFrame(W1, s, after)
  IN  [W2 EXCEPT !.sched[s].cancel = [t |-> "tf", id |-> W1.nextId]]

\* tick of setIntervalFrame: the handler, then (finally) the next iteration.
Tick(W, s, timestamp, beh) ==
  LET delay == W.sched[s].delay
      elapsed == timestamp - W.sched[s].started
      drift == IF delay > 0 THEN elapsed % delay ELSE 0
      after == delay - drift
      W1 == IntervalHandler(W, s, beh)
      W2 == SetTimeoutFrame(W1, s, after)
  IN  [W2 EXCEPT !.sched[s].cancel = [t |-> "tf", id |-> W1.nextId]]

\* ----------------------------------------------------------- @use-raf/loop
\* Durations are rationals n/d (the running average divides by 3).
RECURSIVE GCD(_, _)
GCD(a, b) == IF b = 0 THEN a ELSE GCD(b, a % b)

Rat(n, d) == LET g == GCD(n, d) IN IF g = 0 THEN [n |-> 0, d |-> 1] ELSE [n |-> n \div g, d |-> d \div g]

\* The mean of the previous average and delta, weighted alike.
AvgOfTwo(duration, delta) == Rat(duration.n + delta * duration.d, 2 * duration.d)

\* avg(duration, duration, delta) = (duration + duration + delta) / 3
Avg(duration, delta) == Rat(2 * duration.n + delta * duration.d, 3 * duration.d)

\* throttle > duration
Exceeds(throttle, duration) == throttle * duration.d > duration.n

Undefined == -1

\* frameRef.current: null, or {cancel, timestamp?, duration?}
NullFrame ==
  [null |-> TRUE, cancel |-> NoCancel, timestamp |-> Undefined,
   hasDuration |-> FALSE, duration |-> [n |-> 0, d |-> 1]]

\* The instance: frameRef, throttleRef, what the setActive observer was last
\* told (isActive) and how often (notes); calls, runTs, gap, delta, did and
\* plain record the callback's invocations: how many, the timestamp of the
\* last one of this run, the time between the last two of this run, the delta
\* it was given, what it did, and whether it always just returned.
\* callbackRef names the callback the ref holds and rendered the one passed to
\* the last render (callbacks are named); ran and last record which
\* callbacks were invoked, ever and at the last tick; fresh tells that the
\* throttle was changed since the last tick; renders counts the re-renders;
\* immediate is the option of that name and mounted tells that the component
\* has not been destroyed; alternates tells that no notification of the
\* observer repeated the value of the one before it (the first being true).
NewLoop(throttle) ==
  [frameRef |-> NullFrame, throttleRef |-> throttle, isActive |-> FALSE,
   notes |-> 0, calls |-> 0, runTs |-> Undefined, gap |-> Undefined,
   delta |-> Undefined, did |-> "none", plain |-> TRUE,
   callbackRef |-> "first", rendered |-> "first", ran |-> {}, last |-> "none", fresh |-> FALSE,
   renders |-> 0, immediate |-> FALSE, mounted |-> TRUE, alternates |-> TRUE]

\* The callbacks a useRafTimer built on the loop has made are recorded in its
\* trail, the last three of them: "update" (onUpdate), "active" and "inactive"
\* (setActive) and "complete" (onComplete).
Noted(W, event) ==
  IF ~W.timer.mounted THEN W
  ELSE LET all == Append(W.timer.trail, event)
       IN  [W EXCEPT !.timer.trail = IF Len(all) > 3 THEN Tail(all) ELSE all]

SetActive(W, b) ==
  Noted([W EXCEPT !.loop.isActive = b, !.loop.notes = @ + 1,
                  !.loop.alternates = @ /\ (b # W.loop.isActive)],
        IF b THEN "active" ELSE "inactive")

\* start() without its check of frameRef.current.
StartUnguarded(W) ==
  LET W1 == SetFrame(W, "loop", "loop")
      W2 == [W1 EXCEPT !.loop.frameRef =
                [NullFrame EXCEPT !.null = FALSE,
                                  !.cancel = [t |-> "frame", id |-> W.nextId]],
                       !.loop.runTs = Undefined]
  IN  SetActive(W2, TRUE)

\* start()
Start(W) ==
  IF ~W.loop.frameRef.null THEN W
  ELSE LET W1 == SetFrame(W, "loop", "loop")
           W2 == [W1 EXCEPT !.loop.frameRef =
                     [NullFrame EXCEPT !.null = FALSE,
                                       !.cancel = [t |-> "frame", id |-> W.nextId]],
                            !.loop.runTs = Undefined]
       IN  SetActive(W2, TRUE)

\* stop() without its check of frameRef.current.
StopUnguarded(W) ==
  LET W1 == CallCancel(W, W.loop.frameRef.cancel)
      W2 == [W1 EXCEPT !.loop.frameRef = NullFrame]
  IN  SetActive(W2, FALSE)

\* stop()
Stop(W) ==
  IF W.loop.frameRef.null THEN W
  ELSE LET W1 == CallCancel(W, W.loop.frameRef.cancel)
           W2 == [W1 EXCEPT !.loop.frameRef = NullFrame]
       IN  SetActive(W2, FALSE)

\* ---------------------------------------------------------- @use-raf/timer
\* The instance: the duration prop, elapsedRef.current (the elapsed state
\* follows it), the id of the timeout the completion effect holds (0: none);
\* updates and completes count the calls of onUpdate and onComplete; last,
\* starts and touched record the user's calls: the last one, how many start()
\* calls started the loop (2: two or more), and whether stop(), reset(),
\* sink() or a new duration ever came; ncalls counts the user's calls and at
\* is the instant of the last start() that started the loop, stopAt that of
\* the last stop() that stopped it; unmounted tells that the component was
\* destroyed.
NoTimer ==
  [mounted |-> FALSE, duration |-> 0, elapsed |-> 0, deadline |-> 0,
   updates |-> 0, completes |-> 0, last |-> "none", starts |-> 0,
   touched |-> FALSE, ncalls |-> 0, at |-> 0, stopAt |-> 0, trail |-> <<>>,
   unmounted |-> FALSE]

NewTimer(duration) == [NoTimer EXCEPT !.mounted = TRUE, !.duration = duration]

Max(a, b) == IF a >= b THEN a ELSE b
Min(a, b) == IF a <= b THEN a ELSE b

\* setElapsed(v) of useRefState: ref.current = v; setState(v)
SetElapsed(W, v) == [W EXCEPT !.timer.elapsed = v]

\* updateElapsed(v): setElapsed(v); onUpdate?.(v)
UpdateElapsed(W, v) == Noted([SetElapsed(W, v) EXCEPT !.timer.updates = @ + 1], "update")

\* onFrame that counts down: updateElapsed(elapsedRef.current - delta).
OnFrameCountsDown(W, delta) == UpdateElapsed(W, W.timer.elapsed - delta)

\* onFrame that forgets what had elapsed: updateElapsed(delta).
OnFrameFromZero(W, delta) == UpdateElapsed(W, delta)

\* onFrame(_, delta): updateElapsed(elapsedRef.current + delta)
OnFrame(W, delta) == UpdateElapsed(W, W.timer.elapsed + delta)

\* callbackRef.current(timestamp, delta): the user's callback returns, raises,
\* or calls stop(), start(), or stop() then start(), and returns; the
\* callback of the timer is onFrame.
Callback(W, timestamp, delta, beh) ==
  LET W1 == [W EXCEPT !.loop.calls = @ + 1,
                      !.loop.gap = IF W.loop.runTs = Undefined THEN Undefined
                                   ELSE timestamp - W.loop.runTs,
                      !.loop.runTs = timestamp,
                      !.loop.delta = delta,
                      !.loop.did = beh,
                      !.loop.ran = @ \cup {W.loop.callbackRef},
                      !.loop.last = W.loop.callbackRef,
                      !.loop.fresh = FALSE,
                      !.loop.plain = @ /\ beh = "return"]
  IN  CASE beh = "stop" -> Stop(W1)
        [] beh = "start" -> Start(W1)
        [] beh = "restart" -> Start(Stop(W1))
        [] beh = "onFrame" -> OnFrame(W1, delta)
        [] OTHER -> W1

\* The rest of loop, were it to record the tick and arm nothing.
RescheduleArmsNothing(W, timestamp, delta) ==
  IF W.loop.frameRef.null THEN W
  ELSE [W EXCEPT !.loop.frameRef.timestamp = timestamp]

\* The rest of loop after the callback returned (not run when it raised).
Reschedule(W, timestamp, delta) ==
  IF W.loop.frameRef.null THEN W     \* post-flight check
  ELSE LET fr == W.loop.frameRef
           duration == IF fr.hasDuration THEN fr.duration ELSE [n |-> delta, d |-> 1]
           next == Avg(duration, delta)
           throttled == Exceeds(W.loop.throttleRef, next)
           W1 == IF throttled THEN SetTimeoutFrame(W, "loop", W.loop.throttleRef)
                 ELSE SetFrame(W, "loop", "loop")
       IN  [W1 EXCEPT !.loop.frameRef =
              [fr EXCEPT !.hasDuration = TRUE, !.duration = next,
                         !.timestamp = timestamp,
                         !.cancel = [t |-> IF throttled THEN "tf" ELSE "frame",
                                     id |-> W.nextId]]]

\* loop(timestamp)
Loop(W, timestamp, beh) ==
  IF W.loop.frameRef.null THEN W
  ELSE LET last == W.loop.frameRef.timestamp
           delta == timestamp - (IF last = Undefined THEN timestamp ELSE last)
           W1 == Callback(W, timestamp, delta, beh)
       IN  IF beh = "raise" THEN W1 ELSE Reschedule(W1, timestamp, delta)

\* finalize() that forgets to stop the loop: onComplete?.() only.
FinalizeKeepsRunning(W) == [W EXCEPT !.timer.completes = @ + 1]

\* finalize(): stop(); onComplete?.()
Finalize(W) == Noted([Stop(W) EXCEPT !.timer.completes = @ + 1], "complete")

\* A completion callback that sets elapsed to the duration whatever the ticks
\* accumulated.
DeadlineCallbackSetsDuration(W) ==
  Finalize(UpdateElapsed(W, W.timer.duration))

\* A completion callback that finalizes before it reports the last elapsed.
DeadlineCallbackFinalizesFirst(W) ==
  LET W1 == Finalize(W)
  IN  UpdateElapsed(W1, Max(W1.timer.elapsed, W1.timer.duration))

\* The callback of the completion timeout.
DeadlineCallback(W) ==
  Finalize(UpdateElapsed(W, Max(W.timer.elapsed, W.timer.duration)))

\* reset() that forgets to stop the loop: setElapsed(0) only.
ResetKeepsRunning(W) == SetElapsed(W, 0)

\* reset(): stop(); setElapsed(0)
Reset(W) == SetElapsed(Stop(W), 0)

\* A completion effect that runs again only when isActive changed.
EffectIgnoresDuration(W, wasActive, wasDuration) ==
  IF W.loop.isActive = wasActive THEN W
  ELSE LET W1 == IF W.timer.deadline # 0 THEN ClearTimeout(W, W.timer.deadline) ELSE W
           W2 == [W1 EXCEPT !.timer.deadline = 0]
           left == W.timer.duration - W.timer.elapsed
       IN  IF ~W.loop.isActive THEN W2
           ELSE [SetTimeout(W2, "deadline", "timer", Max(left, 0))
                   EXCEPT !.timer.deadline = W2.nextId]

\* A completion effect that arms no timeout: completion is left to the ticks.
EffectWithoutTimeout(W, wasActive, wasDuration) ==
  IF W.loop.isActive = wasActive /\ W.timer.duration = wasDuration THEN W
  ELSE LET W1 == IF W.timer.deadline # 0 THEN ClearTimeout(W, W.timer.deadline) ELSE W
       IN  [W1 EXCEPT !.timer.deadline = 0]

\* A completion effect without cleanup: the timeout of the previous run stays.
EffectKeepsTimeout(W, wasActive, wasDuration) ==
  IF W.loop.isActive = wasActive /\ W.timer.duration = wasDuration THEN W
  ELSE LET left == W.timer.duration - W.timer.elapsed
       IN  IF ~W.loop.isActive THEN W
           ELSE [SetTimeout(W, "deadline", "timer", Max(left, 0))
                   EXCEPT !.timer.deadline = W.nextId]

\* The completion effect, run by React when isActive or duration differ from
\* the previous render: the cleanup of the previous run (clearTimeout), then,
\* if the timer is active, the timeout for what is left of the duration (the
\* host takes a negative delay as 0).
Effect(W, wasActive, wasDuration) ==
  IF W.loop.isActive = wasActive /\ W.timer.duration = wasDuration THEN W
  ELSE LET W1 == IF W.timer.deadline # 0 THEN ClearTimeout(W, W.timer.deadline) ELSE W
           W2 == [W1 EXCEPT !.timer.deadline = 0]
           left == W.timer.duration - W.timer.elapsed
       IN  IF ~W.loop.isActive THEN W2
           ELSE [SetTimeout(W2, "deadline", "timer", Max(left, 0))
                   EXCEPT !.timer.deadline = W2.nextId]

\* The component is destroyed: the cleanup of the lifecycle effect of the
\* loop (stop) and the cleanup of the completion effect (clearTimeout).
UnmountTimer(W) ==
  LET W1 == Stop(W)
      W2 == IF W1.timer.deadline # 0 THEN ClearTimeout(W1, W1.timer.deadline) ELSE W1
  IN  [W2 EXCEPT !.timer.deadline = 0, !.timer.unmounted = TRUE,
                 !.timer.last = "unmount", !.timer.touched = TRUE]

\* The world after React rendered what a handler that started in W0 left as W.
Rendered(W0, W) == Effect(W, W0.loop.isActive, W0.timer.duration)

\* A re-render that leaves callbackRef as it was (no effect runs).
RerenderKeepsCallback(W, callback, throttle) ==
  [W EXCEPT !.loop.rendered = callback,
            !.loop.throttleRef = throttle,
            !.loop.fresh = @ \/ throttle # W.loop.throttleRef,
            !.loop.renders = @ + 1]

\* The component renders again with a callback and a throttle: the effects
\* callbackRef.current = callback and throttleRef.current = throttle.
Rerender(W, callback, throttle) ==
  [W EXCEPT !.loop.rendered = callback,
            !.loop.callbackRef = callback,
            !.loop.throttleRef = throttle,
            !.loop.fresh = @ \/ throttle # W.loop.throttleRef,
            !.loop.renders = @ + 1]

\* The cleanup of the lifecycle effect, were it to stop without the check of
\* frameRef.current.
UnmountUnguarded(W) == [StopUnguarded(W) EXCEPT !.loop.mounted = FALSE]

\* The component is destroyed: the cleanup of the lifecycle effect, stop.
Unmount(W) == [Stop(W) EXCEPT !.loop.mounted = FALSE]

\* -------------------------------------------------------- @use-raf/timeout
\* The useFrameTimeout instance: the handler, delay and dependency of the
\* last render (handlers and dependencies are named), handlerRef, the Cancel
\* the effect returned (cancel), whether the component is mounted, and about
\* what happened: the re-renders, the invocations of the handler (calls), the
\* handler invoked last, when delay or the dependency last changed
\* (changedAt) and the invocations since (fired).
NoFrameTimeout ==
  [handler |-> "first", delay |-> 0, dep |-> "a", handlerRef |-> "first",
   cancel |-> NoCancel, mounted |-> FALSE, renders |-> 0, calls |-> 0, last |-> "none",
   changedAt |-> 0, fired |-> 0]

\* The effect on [delay, ...deps]: setFrameTimeout(handlerRef.current, delay),
\* whose Cancel is the cleanup of the effect.
ArmTimeout(W, delay) ==
  LET W1 == SetTimeoutFrame(W, "hook", delay)
  IN  [W1 EXCEPT !.frameTimeout.cancel = [t |-> "tf", id |-> W.nextId]]

\* The cleanup of that effect.
CleanupTimeout(W) ==
  IF W.frameTimeout.cancel.t = "tf"
  THEN SetTimeoutFrameCancel(W, W.frameTimeout.cancel.id)
  ELSE W

\* useFrameTimeout(handler, delay, [dep]) when the component mounts.
MountTimeout(W, handler, delay, dep) ==
  ArmTimeout([W EXCEPT !.frameTimeout =
                [NoFrameTimeout EXCEPT !.handler = handler, !.handlerRef = handler,
                                       !.delay = delay, !.dep = dep, !.mounted = TRUE,
                                       !.changedAt = now]],
             delay)

\* A re-render whose effect runs again without the cleanup of the last run.
RenderTimeoutKeepsPending(W, handler, delay, dep) ==
  LET changed == delay # W.frameTimeout.delay \/ dep # W.frameTimeout.dep
      W1 == [W EXCEPT !.frameTimeout.handler = handler,
                      !.frameTimeout.handlerRef = handler,
                      !.frameTimeout.delay = delay,
                      !.frameTimeout.dep = dep,
                      !.frameTimeout.renders = @ + 1,
                      !.frameTimeout.changedAt = IF changed THEN now ELSE @,
                      !.frameTimeout.fired = IF changed THEN 0 ELSE @]
  IN  IF changed THEN ArmTimeout(W1, delay) ELSE W1

\* The component renders again with a handler, a delay and a dependency:
\* handlerRef.current = handler, and when delay or the dependency changed the
\* cleanup of the effect and the effect again.
RenderTimeout(W, handler, delay, dep) ==
  LET changed == delay # W.frameTimeout.delay \/ dep # W.frameTimeout.dep
      W1 == [W EXCEPT !.frameTimeout.handler = handler,
                      !.frameTimeout.handlerRef = handler,
                      !.frameTimeout.delay = delay,
                      !.frameTimeout.dep = dep,
                      !.frameTimeout.renders = @ + 1,
                      !.frameTimeout.changedAt = IF changed THEN now ELSE @,
                      !.frameTimeout.fired = IF changed THEN 0 ELSE @]
  IN  IF changed THEN ArmTimeout(CleanupTimeout(W1), delay) ELSE W1

\* The component is destroyed: the cleanup of the effect.
UnmountTimeout(W) == [CleanupTimeout(W) EXCEPT !.frameTimeout.mounted = FALSE]

\* The handler given to setFrameTimeout: handlerRef.current(timestamp)
HookHandler(W) ==
  [W EXCEPT !.frameTimeout.calls = @ + 1,
            !.frameTimeout.fired = @ + 1,
            !.frameTimeout.last = W.frameTimeout.handlerRef]

\* ---------------------------------------------------------- @use-raf/state
\* The useRafState instance: the React state and the commits it saw
\* (state, commits, and at: the repaint of the last one), stateRef and cancelRef, the value each pending callback
\* captured (next, by repaint id), whether the component is mounted, and about
\* the calls of the setter: how many (sets, and pending: since the last
\* commit), the last plain value given or
\* the initial state (base) and the updaters given since (updaters).
NoRafState ==
  [state |-> 0, stateRef |-> 0, cancelRef |-> NoCancel, next |-> <<>>, mounted |-> FALSE,
   commits |-> 0, at |-> -1, sets |-> 0, pending |-> 0, base |-> 0, updaters |-> 0]

\* useRafState(initialState)
NewRafState(initialState) ==
  [NoRafState EXCEPT !.state = initialState, !.stateRef = initialState,
                     !.base = initialState, !.mounted = TRUE]

\* A value given to the setter: a plain value v, or the updater
\* prev => prev + 1.
Plain(v) == [isFunction |-> FALSE, v |-> v]
Increment == [isFunction |-> TRUE, v |-> 1]

\* value instanceof Function ? value(prev) : value
Resolve(value, prev) == IF value.isFunction THEN prev + value.v ELSE value.v

\* cancelRef.current?.()
CancelPending(W) ==
  IF W.rafState.cancelRef.t = "frame" THEN SetFrameCancel(W, W.rafState.cancelRef.id) ELSE W

\* A setter that requests a repaint without cancelling the pending one.
SetKeepsPending(W, value) ==
  LET next == Resolve(value, W.rafState.stateRef)
      W1 == SetFrame(W, "commit", "state")
  IN  [W1 EXCEPT !.rafState.stateRef = next,
                 !.rafState.cancelRef = [t |-> "frame", id |-> W.nextId],
                 !.rafState.next = @ @@ (W.nextId :> next),
                 !.rafState.sets = @ + 1,
                 !.rafState.pending = @ + 1,
                 !.rafState.base = IF value.isFunction THEN @ ELSE value.v,
                 !.rafState.updaters = IF value.isFunction THEN @ + 1 ELSE 0]

\* A setter that gives the updater the rendered state instead of stateRef.
SetFromRenderedState(W, value) ==
  LET next == Resolve(value, W.rafState.state)
      W1 == SetFrame(CancelPending(W), "commit", "state")
  IN  [W1 EXCEPT !.rafState.stateRef = next,
                 !.rafState.cancelRef = [t |-> "frame", id |-> W.nextId],
                 !.rafState.next = @ @@ (W.nextId :> next),
                 !.rafState.sets = @ + 1,
                 !.rafState.pending = @ + 1,
                 !.rafState.base = IF value.isFunction THEN @ ELSE value.v,
                 !.rafState.updaters = IF value.isFunction THEN @ + 1 ELSE 0]

\* set(value)
Set(W, value) ==
  LET next == Resolve(value, W.rafState.stateRef)
      W1 == SetFrame(CancelPending(W), "commit", "state")
  IN  [W1 EXCEPT !.rafState.stateRef = next,
                 !.rafState.cancelRef = [t |-> "frame", id |-> W.nextId],
                 !.rafState.next = @ @@ (W.nextId :> next),
                 !.rafState.sets = @ + 1,
                 !.rafState.pending = @ + 1,
                 !.rafState.base = IF value.isFunction THEN @ ELSE value.v,
                 !.rafState.updaters = IF value.isFunction THEN @ + 1 ELSE 0]

\* The callback given to setFrame: setState(() => next), which React ignores
\* once the component is unmounted.
CommitState(W, id) ==
  IF W.rafState.mounted
  THEN [W EXCEPT !.rafState.state = W.rafState.next[id], !.rafState.commits = @ + 1,
                 !.rafState.at = lastFrame, !.rafState.pending = 0]
  ELSE W

\* An unmount whose cleanup cancels nothing.
UnmountStateKeepsPending(W) == [W EXCEPT !.rafState.mounted = FALSE]

\* The cleanup of the effect of useRafState: cancelRef.current?.()
UnmountState(W) == [CancelPending(W) EXCEPT !.rafState.mounted = FALSE]

\* --------------------------------------------------------------- the user
\* const cancel = setFrame(handler)
ScheduleFrame(W, s) ==
  LET W1 == SetFrame(W, "frame", s)
  IN  [W1 EXCEPT !.sched[s] =
         [NoSched EXCEPT !.kind = "frame", !.at = now,
                         !.cancel = [t |-> "frame", id |-> W.nextId]]]

\* const cancel = setTimeoutFrame(handler, delay)
ScheduleTimeout(W, s, delay) ==
  LET W1 == SetTimeoutFrame(W, s, delay)
  IN  [W1 EXCEPT !.sched[s] =
         [NoSched EXCEPT !.kind = "timeout", !.delay = delay, !.at = now,
                         !.cancel = [t |-> "tf", id |-> W.nextId]]]

Schedule(s, kind, delay, clock) ==
  /\ queue = {}
  /\ sched[s].kind = "none"
  /\ Commit(CASE kind = "frame" -> ScheduleFrame(Cur, s)
              [] kind = "timeout" -> ScheduleTimeout(Cur, s, delay)
              [] OTHER -> SetIntervalFrame(Cur, s, delay, clock))
  /\ op' = "schedule"
  /\ UNCHANGED <<now, lastFrame>>

\* cancel(), called by the user outside any handler
UserCancel(s) ==
  /\ queue = {}
  /\ sched[s].kind # "none"
  /\ sched[s].ncancel < MaxCancels
  /\ Commit([CallCancel(Cur, sched[s].cancel) EXCEPT !.sched[s].ncancel = @ + 1])
  /\ op' = "cancel"
  /\ UNCHANGED <<now, lastFrame>>

UserStart ==
  /\ queue = {}
  /\ Commit(Start(Cur))
  /\ op' = "start"
  /\ UNCHANGED <<now, lastFrame>>

UserStop ==
  /\ queue = {}
  /\ Commit(Stop(Cur))
  /\ op' = "stop"
  /\ UNCHANGED <<now, lastFrame>>

\* The calls of the timer's user, each in an event handler of its own.
TimerStart ==
  /\ queue = {}
  /\ ~timer.unmounted
  /\ timer.ncalls < MaxCalls
  /\ Commit(Rendered(Cur,
        [Start(Cur) EXCEPT !.timer.last = "start", !.timer.ncalls = @ + 1,
                           !.timer.starts = IF loop.frameRef.null THEN Min(@ + 1, 2) ELSE @,
                           !.timer.at = IF loop.frameRef.null THEN now ELSE @]))
  /\ op' = "start"
  /\ UNCHANGED <<now, lastFrame>>

TimerStop ==
  /\ queue = {}
  /\ ~timer.unmounted
  /\ timer.ncalls < MaxCalls
  /\ Commit(Rendered(Cur, [Stop(Cur) EXCEPT !.timer.last = "stop", !.timer.touched = TRUE, !.timer.ncalls = @ + 1,
                          !.timer.stopAt = IF loop.frameRef.null THEN @ ELSE now]))
  /\ op' = "stop"
  /\ UNCHANGED <<now, lastFrame>>

TimerReset ==
  /\ queue = {}
  /\ ~timer.unmounted
  /\ timer.ncalls < MaxCalls
  /\ Commit(Rendered(Cur, [Reset(Cur) EXCEPT !.timer.last = "reset", !.timer.touched = TRUE, !.timer.ncalls = @ + 1]))
  /\ op' = "reset"
  /\ UNCHANGED <<now, lastFrame>>

TimerSink ==
  /\ queue = {}
  /\ ~timer.unmounted
  /\ timer.ncalls < MaxCalls
  /\ Commit(Rendered(Cur, [Finalize(Cur) EXCEPT !.timer.last = "sink", !.timer.touched = TRUE, !.timer.ncalls = @ + 1]))
  /\ op' = "sink"
  /\ UNCHANGED <<now, lastFrame>>

TimerUnmount ==
  /\ queue = {}
  /\ ~timer.unmounted
  /\ Commit(UnmountTimer(Cur))
  /\ op' = "unmount"
  /\ UNCHANGED <<now, lastFrame>>

\* The component is rendered with another duration.
TimerDuration(d) ==
  /\ queue = {}
  /\ d # timer.duration
  /\ ~timer.unmounted
  /\ timer.ncalls < MaxCalls
  /\ Commit(Rendered(Cur, [Cur EXCEPT !.timer.duration = d, !.timer.touched = TRUE, !.timer.ncalls = @ + 1]))
  /\ op' = "duration"
  /\ UNCHANGED <<now, lastFrame>>

\* --------------------------------------------------------------- the host
\* Host time passes (no callback is running).
Advance ==
  /\ queue = {}
  /\ now < TimeLimit
  /\ now' = now + 1
  /\ op' = "advance"
  /\ UNCHANGED <<lastFrame, frameEvery, nextId, timers, rafs, queue, frameOf, sched, loop, timer,
                 rafState, frameTimeout>>

\* A repaint begins: the callbacks registered so far are its callbacks, all
\* with the same timestamp; callbacks registered from now on wait for the next.
Repaint ==
  /\ queue = {}
  /\ now > lastFrame
  /\ lastFrame' = now
  /\ queue' = rafs
  /\ rafs' = {}
  /\ op' = "repaint"
  /\ UNCHANGED <<now, frameEvery, nextId, timers, frameOf, sched, loop, timer, rafState,
                 frameTimeout>>

\* The next callback of the running repaint, in the order of registration.
Front == CHOOSE r \in queue : \A q \in queue : r.id <= q.id

Popped == [Cur EXCEPT !.queue = @ \ {Front}]

IsLoop(r) == r.o = "loop"
IsTick(r) == r.o \in DOMAIN sched /\ r.k = "tfFrame" /\ sched[r.o].kind = "interval"
IsHandler(r) == r.o \in DOMAIN sched /\ ~IsTick(r)

\* The repaint runs a callback registered by setFrame(handler) or by the
\* timer callback of setTimeoutFrame(handler): the user's handler.
DispatchHandler ==
  /\ queue # {}
  /\ IsHandler(Front)
  /\ Commit(Handler(Popped, Front.o))
  /\ op' = "handler"
  /\ UNCHANGED <<now, lastFrame>>

\* The repaint runs tick of a setIntervalFrame.
DispatchTick(beh) ==
  /\ queue # {}
  /\ IsTick(Front)
  /\ Commit(Tick(Popped, Front.o, lastFrame, beh))
  /\ op' = "tick"
  /\ UNCHANGED <<now, lastFrame>>

\* The repaint runs loop of the useRafLoop.
DispatchLoop(beh) ==
  /\ queue # {}
  /\ IsLoop(Front)
  /\ Commit(Loop(Popped, lastFrame, beh))
  /\ op' = "loop"
  /\ UNCHANGED <<now, lastFrame>>

\* The host runs a timer no earlier than its delay, and only after the timers
\* that were set before it with a delay not longer than its own.
Ready(t) ==
  /\ t.due <= now
  /\ \A u \in timers : ~(u.id < t.id /\ u.delay <= t.delay)

\* A timer whose delay has elapsed fires: the timer callback of setTimeoutFrame.
FireTimer(t) ==
  /\ queue = {}
  /\ t.k = "tf"
  /\ Ready(t)
  /\ Commit(TimeoutCallback([Cur EXCEPT !.timers = @ \ {t}], t))
  /\ op' = "timer"
  /\ UNCHANGED <<now, lastFrame>>

\* The completion timeout of the timer fires.
FireDeadline(t) ==
  /\ queue = {}
  /\ t.k = "deadline"
  /\ Ready(t)
  /\ Commit(Rendered(Cur, DeadlineCallback([Cur EXCEPT !.timers = @ \ {t}])))
  /\ op' = "deadline"
  /\ UNCHANGED <<now, lastFrame>>

Host ==
  \/ Advance
  \/ Repaint
  \/ \E t \in timers : FireTimer(t)

\* A host that repaints every frameEvery ms and runs every timeout as soon as
\* it is due: time does not pass, and no repaint begins, while one is due.
NoTimerDue == \A t \in timers : ~Ready(t)
RepaintDue == now % frameEvery = 0 /\ lastFrame < now

RegularAdvance ==
  /\ NoTimerDue
  /\ ~RepaintDue
  /\ Advance

RegularRepaint ==
  /\ NoTimerDue
  /\ RepaintDue
  /\ Repaint

InitHost ==
  /\ now = 0
  /\ lastFrame = -1
  /\ frameEvery = 0
  /\ nextId = 1
  /\ timers = {}
  /\ rafs = {}
  /\ queue = {}
  /\ frameOf = <<>>
  /\ op = "init"

\* ------------------------------------------------- the skd specification
Init ==
  /\ InitHost
  /\ sched = [s \in Scheds |-> NoSched]
  /\ loop = NewLoop(0)
  /\ timer = NoTimer
  /\ rafState = NoRafState
  /\ frameTimeout = NoFrameTimeout

Next ==
  \/ \E s \in Scheds, kind \in Kinds, delay \in Delays, clock \in {"timeline", "performance"} :
       Schedule(s, kind, delay, clock)
  \/ \E s \in Scheds : UserCancel(s)
  \/ DispatchHandler
  \/ \E beh \in Behaviours : DispatchTick(beh)
  \/ Host

Spec == Init /\ [][Next]_vars

\* ------------------------------------------------ the loop specification
InitLoop ==
  /\ InitHost
  /\ sched = [s \in Scheds |-> NoSched]
  /\ \E throttle \in Delays : loop = NewLoop(throttle)
  /\ timer = NoTimer
  /\ rafState = NoRafState
  /\ frameTimeout = NoFrameTimeout

NextLoop ==
  \/ UserStart
  \/ UserStop
  \/ \E beh \in LoopBehaviours : DispatchLoop(beh)
  \/ Host

SpecLoop == InitLoop /\ [][NextLoop]_vars

\* -------------------------------------------- the interval specification
\* One setIntervalFrame with a handler that returns, on the regular host.
Frames == 1..MaxFrame
Periods == 1..MaxPeriod

InitRegularHost ==
  /\ now = 0
  /\ lastFrame = -1
  /\ frameEvery \in Frames
  /\ nextId = 1
  /\ timers = {}
  /\ rafs = {}
  /\ queue = {}
  /\ frameOf = <<>>
  /\ op = "init"

InitInterval ==
  /\ InitRegularHost
  /\ sched = [s \in Scheds |-> NoSched]
  /\ loop = NewLoop(0)
  /\ timer = NoTimer
  /\ rafState = NoRafState
  /\ frameTimeout = NoFrameTimeout

NextInterval ==
  \/ \E s \in Scheds, delay \in Periods, clock \in {"timeline", "performance"} :
       Schedule(s, "interval", delay, clock)
  \/ DispatchTick("return")
  \/ \E t \in timers : FireTimer(t)
  \/ RegularAdvance
  \/ RegularRepaint

SpecInterval == InitInterval /\ [][NextInterval]_vars

\* -------------------------------------------- the throttle specification
\* The world before a hook is mounted.
NoWorld(throttle) ==
  [nextId |-> 1, timers |-> {}, rafs |-> {}, queue |-> {}, frameOf |-> <<>>,
   sched |-> [s \in Scheds |-> NoSched], loop |-> NewLoop(throttle), timer |-> NoTimer,
   rafState |-> NoRafState, frameTimeout |-> NoFrameTimeout]

\* The lifecycle effect of useRafLoop when the component mounts:
\* immediate && start()
Mount(W, immediate) ==
  LET W1 == [W EXCEPT !.loop.immediate = immediate]
  IN  IF immediate THEN Start(W1) ELSE W1

\* The variables the library writes hold world W.
Installed(W) ==
  /\ nextId = W.nextId
  /\ timers = W.timers
  /\ rafs = W.rafs
  /\ queue = W.queue
  /\ frameOf = W.frameOf
  /\ sched = W.sched
  /\ loop = W.loop
  /\ timer = W.timer
  /\ rafState = W.rafState
  /\ frameTimeout = W.frameTimeout

\* A useRafLoop mounted at time 0 with immediate = true and a throttle longer
\* than the repaint interval of the regular host; its handler returns.
InitThrottle ==
  /\ now = 0
  /\ lastFrame = -1
  /\ frameEvery \in Frames
  /\ op = "init"
  /\ \E throttle \in Periods :
       /\ throttle > frameEvery
       /\ Installed(Mount(NoWorld(throttle), TRUE))

NextThrottle ==
  \/ DispatchLoop("return")
  \/ \E t \in timers : FireTimer(t)
  \/ RegularAdvance
  \/ RegularRepaint

SpecThrottle == InitThrottle /\ [][NextThrottle]_vars

\* ------------------------------------------------ the live specification
\* A mounted useRafLoop whose component re-renders with other callbacks and
\* throttles and is destroyed in the end; the callback returns, or calls
\* stop() then start().
Callbacks == {"first", "second"}
Throttles == {0, MaxDelay}

LiveStart ==
  /\ loop.mounted
  /\ UserStart

LiveRerender(callback, throttle) ==
  /\ queue = {}
  /\ loop.mounted
  /\ loop.renders < MaxRenders
  /\ Commit(Rerender(Cur, callback, throttle))
  /\ op' = "render"
  /\ UNCHANGED <<now, lastFrame>>

LiveUnmount ==
  /\ queue = {}
  /\ loop.mounted
  /\ Commit(Unmount(Cur))
  /\ op' = "unmount"
  /\ UNCHANGED <<now, lastFrame>>

InitLive ==
  /\ now = 0
  /\ lastFrame = -1
  /\ frameEvery = 0
  /\ op = "init"
  /\ \E throttle \in Throttles, immediate \in BOOLEAN :
       Installed(Mount(NoWorld(throttle), immediate))

NextLive ==
  \/ LiveStart
  \/ \E callback \in Callbacks, throttle \in Throttles : LiveRerender(callback, throttle)
  \/ LiveUnmount
  \/ \E beh \in {"return", "restart"} : DispatchLoop(beh)
  \/ Host

SpecLive == InitLive /\ [][NextLive]_vars

\* ----------------------------------------------- the state specification
\* A component that holds a useRafState(0); its event handlers call the setter
\* with plain values and with the updater prev => prev + 1, between repaints.
Values == 0..MaxValue

StateSet(value) ==
  /\ queue = {}
  /\ rafState.mounted
  /\ rafState.sets < MaxSets
  /\ Commit(Set(Cur, value))
  /\ op' = "set"
  /\ UNCHANGED <<now, lastFrame>>

StateUnmount ==
  /\ queue = {}
  /\ rafState.mounted
  /\ Commit(UnmountState(Cur))
  /\ op' = "unmount"
  /\ UNCHANGED <<now, lastFrame>>

\* The repaint runs the callback of a setter call.
DispatchCommit ==
  /\ queue # {}
  /\ Front.o = "state"
  /\ Commit(CommitState(Popped, Front.id))
  /\ op' = "commit"
  /\ UNCHANGED <<now, lastFrame>>

InitState ==
  /\ InitHost
  /\ sched = [s \in Scheds |-> NoSched]
  /\ loop = NewLoop(0)
  /\ timer = NoTimer
  /\ rafState = NewRafState(0)
  /\ frameTimeout = NoFrameTimeout

NextState ==
  \/ \E v \in Values : StateSet(Plain(v))
  \/ StateSet(Increment)
  \/ StateUnmount
  \/ DispatchCommit
  \/ Advance
  \/ Repaint

SpecState == InitState /\ [][NextState]_vars

\* ---------------------------------------------- the timeout specification
\* A component that holds a useFrameTimeout(handler, delay, [dep]) and
\* renders again with other handlers, delays and dependencies.
Handlers == {"first", "second"}
Deps == {"a", "b"}

TimeoutRender(handler, delay, dep) ==
  /\ queue = {}
  /\ frameTimeout.mounted
  /\ frameTimeout.renders < MaxTimeoutRenders
  /\ Commit(RenderTimeout(Cur, handler, delay, dep))
  /\ op' = "hookRender"
  /\ UNCHANGED <<now, lastFrame>>

TimeoutUnmount ==
  /\ queue = {}
  /\ frameTimeout.mounted
  /\ Commit(UnmountTimeout(Cur))
  /\ op' = "unmount"
  /\ UNCHANGED <<now, lastFrame>>

\* The repaint runs the callback the timer callback of setFrameTimeout
\* registered: the handler.
DispatchHook ==
  /\ queue # {}
  /\ Front.o = "hook"
  /\ Commit(HookHandler(Popped))
  /\ op' = "hookHandler"
  /\ UNCHANGED <<now, lastFrame>>

InitTimeout ==
  /\ now = 0
  /\ lastFrame = -1
  /\ frameEvery = 0
  /\ op = "init"
  /\ \E delay \in Delays : Installed(MountTimeout(NoWorld(0), "first", delay, "a"))

NextTimeout ==
  \/ \E handler \in Handlers, delay \in Delays, dep \in Deps : TimeoutRender(handler, delay, dep)
  \/ TimeoutUnmount
  \/ DispatchHook
  \/ Host

SpecTimeout == InitTimeout /\ [][NextTimeout]_vars

\* ------------------------------------------------- the pair specification
\* Two schedules made with @use-raf/skd, in any order and at any time, each
\* cancelled by its own handle before or after it fired.
Pair == {"s1", "s2"}

InitPair ==
  /\ InitHost
  /\ sched = [s \in Pair |-> NoSched]
  /\ loop = NewLoop(0)
  /\ timer = NoTimer
  /\ rafState = NoRafState
  /\ frameTimeout = NoFrameTimeout

NextPair ==
  \/ \E s \in Pair, kind \in Kinds, delay \in {0, MaxDelay} : Schedule(s, kind, delay, "performance")
  \/ \E s \in Pair : UserCancel(s)
  \/ DispatchHandler
  \/ DispatchTick("return")
  \/ Host

SpecPair == InitPair /\ [][NextPair]_vars

\* ----------------------------------------------- the timer specification
Durations == 1..MaxDuration

InitTimer ==
  /\ InitHost
  /\ sched = [s \in Scheds |-> NoSched]
  /\ \E throttle \in {0, MaxDelay} : loop = NewLoop(throttle)
  /\ \E duration \in Durations : timer = NewTimer(duration)
  /\ rafState = NoRafState
  /\ frameTimeout = NoFrameTimeout

NextTimer ==
  \/ TimerStart
  \/ TimerStop
  \/ TimerReset
  \/ TimerSink
  \/ \E d \in Durations : TimerDuration(d)
  \/ TimerUnmount
  \/ DispatchLoop("onFrame")
  \/ \E t \in timers : FireDeadline(t)
  \/ Host

SpecTimer == InitTimer /\ [][NextTimer]_vars

\* --------------------------------------- the timer left to run, with fairness
\* A useRafTimer with a throttle that is started and then left alone.  The host lets time
\* pass, fires the timers that are due and finishes a repaint it began, but it
\* need not begin one: the context may be in the background.
StartOnce ==
  /\ timer.ncalls = 0
  /\ TimerStart

NextLeftAlone ==
  \/ StartOnce
  \/ DispatchLoop("onFrame")
  \/ \E t \in timers : FireDeadline(t)
  \/ Host

\* What the host does whether or not the context is visible.
HostProgress ==
  \/ Advance
  \/ \E t \in timers : FireTimer(t)
  \/ \E t \in timers : FireDeadline(t)
  \/ DispatchLoop("onFrame")

InitLeftAlone ==
  /\ InitHost
  /\ sched = [s \in Scheds |-> NoSched]
  /\ loop = NewLoop(MaxDelay)
  /\ \E duration \in {1, MaxDuration} : timer = NewTimer(duration)
  /\ rafState = NoRafState
  /\ frameTimeout = NoFrameTimeout

SpecLeftAlone ==
  /\ InitLeftAlone
  /\ [][NextLeftAlone]_vars
  /\ WF_vars(HostProgress)

\* ------------------------------------------------------- claims about skd
SingleShot(s) == sched[s].kind \in {"frame", "timeout"}

\* C1: once the Cancel returned by setIntervalFrame has been called from
\* outside the handler, no later step invokes the handler, whether the
\* deadline timer or the repaint registration of the iteration was pending.
C1_IntervalCancelStopsIterations ==
  [][\A s \in Scheds :
       (sched[s].kind = "interval" /\ sched[s].ncancel > 0)
         => sched'[s].calls = sched[s].calls]_vars

\* The interval ran an iteration, the deadline of the next one had fired and
\* its repaint registration was pending when Cancel was called, and a later
\* repaint has come.
C1_Witness ==
  \E s \in Scheds :
    /\ sched[s].kind = "interval"
    /\ sched[s].ncancel = 1
    /\ sched[s].calls >= 1
    /\ frameOf[sched[s].cancel.id] # 0
    /\ op = "repaint"

\* C2: after the Cancel of a setTimeoutFrame was called before the handler
\* ran, the handler never runs and nothing of the schedule stays registered:
\* no timer, and no repaint request (none is ever registered when the timer
\* was still pending).
C2_TimeoutCancelPreventsHandler ==
  /\ [](\A s \in Scheds :
          (sched[s].kind = "timeout" /\ sched[s].ncancel > 0 /\ sched[s].calls = 0)
            => (timers = {} /\ rafs = {} /\ queue = {}))
  /\ [][\A s \in Scheds :
          (sched[s].kind = "timeout" /\ sched[s].ncancel > 0 /\ sched[s].calls = 0)
            => sched'[s].calls = 0]_vars

\* The deadline had fired and the repaint registration was pending when
\* Cancel was called; a later repaint has come and the handler has not run.
C2_Witness ==
  \E s \in Scheds :
    /\ sched[s].kind = "timeout"
    /\ sched[s].ncancel >= 1
    /\ sched[s].calls = 0
    /\ frameOf[sched[s].cancel.id] # 0
    /\ op = "repaint"

\* C3: whatever number of times and whenever the Cancel of a setFrame or a
\* setTimeoutFrame is called, the handler is invoked at most once, and a
\* Cancel called after the handler ran changes no registration and no count.
C3_CancelIdempotent ==
  /\ [](\A s \in Scheds : SingleShot(s) => sched[s].calls <= 1)
  /\ [][\A s \in Scheds :
          (SingleShot(s) /\ sched[s].calls >= 1 /\ op' = "cancel")
            => UNCHANGED <<nextId, timers, rafs, queue, frameOf>>
               /\ sched'[s].calls = sched[s].calls]_vars

\* The handler of a setTimeoutFrame ran once and Cancel was then called twice.
C3_Witness ==
  \E s \in Scheds :
    /\ sched[s].kind = "timeout"
    /\ sched[s].calls = 1
    /\ sched[s].ncancel = 2
    /\ op = "cancel"

\* C4: the handler of setTimeoutFrame(h, d) is invoked only by a repaint
\* dispatch (not by the scheduling call, not by the timer callback), and the
\* repaint that invokes it comes d ms or more after the scheduling call.
C4_TimeoutDelayLowerBound ==
  [][\A s \in Scheds :
       (sched'[s].kind = "timeout" /\ sched'[s].calls > sched[s].calls)
         => /\ op' = "handler"
            /\ queue # {}
            /\ lastFrame >= sched[s].at + sched[s].delay
            /\ now >= sched[s].at + sched[s].delay]_vars

\* The handler ran at the first instant allowed, for a delay greater than 0.
C4_Witness ==
  \E s \in Scheds :
    /\ sched[s].kind = "timeout"
    /\ sched[s].calls = 1
    /\ sched[s].delay > 0
    /\ now = sched[s].at + sched[s].delay

\* --------------------------------------------------- claims about the loop
\* The native registrations that run loop: repaint requests (pending, or of
\* the repaint being dispatched) and deadline timers.
LoopRafs == {r \in rafs \cup queue : r.o = "loop"}
LoopTimers == {t \in timers : t.o = "loop"}
LoopRegs == Cardinality(LoopRafs) + Cardinality(LoopTimers)

\* C5: whatever start(), stop() and the handler did, the loop owns at most
\* one outstanding native registration.
C5_AtMostOneRegistration == LoopRegs <= 1

\* C6: the loop is active (frameRef non-null, observer last told true) exactly
\* when a native registration that runs loop is pending.
C6_ActiveIffRegistered ==
  /\ loop.isActive <=> ~loop.frameRef.null
  /\ ~loop.frameRef.null <=> LoopRegs >= 1

\* C7: start() called on a Running loop registers nothing, notifies nobody and
\* leaves the timing state as it was.
C7_StartWhenRunningIsNoOp ==
  [][(op' = "start" /\ ~loop.frameRef.null)
       => UNCHANGED <<nextId, timers, rafs, queue, frameOf, loop>>]_vars

\* The loop ticked, start() was then called again, and only the first start()
\* ever notified the observer.
C7_Witness ==
  /\ op = "start"
  /\ loop.calls >= 1
  /\ loop.notes = 1
  /\ LoopRegs = 1

\* C8: while the loop is Stopped (observer last told false) no step invokes
\* the handler, and stop() called on a Stopped loop changes nothing and sends
\* no notification.
C8_StoppedLoopIsSilent ==
  /\ [][(~loop.isActive /\ ~loop'.isActive) => loop'.calls = loop.calls]_vars
  /\ [][(op' = "stop" /\ loop.frameRef.null)
          => UNCHANGED <<nextId, timers, rafs, queue, frameOf, loop>>]_vars

\* A throttled loop ticked (its handler returned) and was then stopped by the
\* user; the throttle has since elapsed and a repaint has come.
C8_Witness ==
  /\ ~loop.isActive
  /\ loop.notes = 2
  /\ loop.plain
  /\ loop.calls >= 1
  /\ loop.throttleRef > 0
  /\ now > loop.runTs + loop.throttleRef
  /\ op = "repaint"

\* C9: after a tick in which the handler called stop(), and until start() is
\* called, the loop is Stopped and owns no native registration.
C9_StopInHandlerLeavesNothing ==
  (loop.did = "stop" /\ loop.runTs # Undefined /\ loop.frameRef.null)
    => (~loop.isActive /\ LoopRegs = 0)

\* C10: with a throttle T > 0, two successive handler invocations of one run
\* are at least T ms apart (stated for a handler that only ever returns).
C10_ThrottleIsMinimumGap ==
  (loop.plain /\ loop.throttleRef > 0 /\ loop.gap # Undefined)
    => loop.gap >= loop.throttleRef

\* C11: within one run, every handler invocation after the first receives
\* delta equal to its timestamp minus the timestamp of the previous handler
\* invocation of that run.
C11_DeltaIsGapBetweenInvocations ==
  loop.gap # Undefined => loop.delta = loop.gap

\* -------------------------------------------------- claims about the timer
\* The timer was started once, from elapsed 0, and the user has since called
\* nothing but start().
Pristine == timer.starts = 1 /\ ~timer.touched

\* The host has run the completion timeout if its time has come.
DeadlineDelivered == \A t \in timers : t.k = "deadline" => t.due > now

C13_CompletionElapsedIsDuration ==
  op = "deadline" => timer.elapsed = timer.duration

\* C13 (amended): the elapsed value reported when the timer completes through
\* its deadline is the larger of the duration and what had accumulated: never
\* below the duration, and above it when the ticks had overshot it or the
\* duration was lowered below what had elapsed.
C13_CompletionElapsedAtLeastDuration ==
  [][op' = "deadline"
       => /\ timer'.elapsed = Max(timer.elapsed, timer.duration)
          /\ timer'.elapsed >= timer'.duration]_vars

\* The timer was running with more elapsed than its new duration when the
\* completion timeout fired.
C13_Witness ==
  /\ op = "deadline"
  /\ timer.elapsed > timer.duration
  /\ timer.starts = 1
  /\ timer.last = "start"
  /\ timer.touched
  /\ timer.ncalls = 2

\* The completion timeouts that are pending.
Deadlines == {t \in timers : t.k = "deadline"}

C15_StopFreezesStartResumes ==
  /\ [][op' \in {"stop", "start"} => timer'.elapsed = timer.elapsed]_vars
  /\ [][(timer.last = "stop" /\ timer'.ncalls = timer.ncalls)
          => timer'.elapsed = timer.elapsed]_vars
  /\ [][(op' = "loop" /\ loop'.calls > loop.calls)
          => timer'.elapsed = timer.elapsed
               + (IF loop'.gap = Undefined THEN 0 ELSE loop'.gap)]_vars

\* The timer ran, was stopped for some time, was started again and has
\* ticked with time added to what had elapsed before the stop.
C15_Witness ==
  /\ timer.starts = 2
  /\ timer.last = "start"
  /\ timer.stopAt < timer.at
  /\ op = "loop"
  /\ loop.gap >= 1
  /\ timer.elapsed > now - timer.at
  /\ timer.elapsed < timer.duration

C17_ElapsedMonotone ==
  /\ [](timer.elapsed >= 0)
  /\ [][(loop.isActive /\ op' # "reset") => timer'.elapsed >= timer.elapsed]_vars
  /\ [][(~loop.isActive /\ op' # "reset") => timer'.elapsed = timer.elapsed]_vars
  /\ [][(timer.elapsed # 0 /\ timer'.elapsed = 0) => op' = "reset"]_vars

\* The timer had ticked with time added when reset() took elapsed back to 0.
C17_Witness ==
  /\ op = "reset"
  /\ timer.elapsed = 0
  /\ loop.calls >= 2
  /\ loop.delta >= 1

\* ------------------------------------------- more claims about the interval
\* The native registrations of schedule s: deadline timers and repaint
\* requests (pending, or of the repaint being dispatched).
SchedRegs(s) ==
  Cardinality({t \in timers : t.o = s}) + Cardinality({r \in rafs \cup queue : r.o = s})

\* C20: after an iteration in which the handler of a setIntervalFrame raised,
\* the chain holds exactly one outstanding registration (the deadline of the
\* next iteration), held by the interval's Cancel.
C20_RaiseStillSchedulesNext ==
  \A s \in Scheds :
    (op = "tick" /\ sched[s].kind = "interval" /\ sched[s].did = "raise")
      => /\ SchedRegs(s) = 1
         /\ \E t \in timers : t.o = s /\ sched[s].cancel = [t |-> "tf", id |-> t.id]

\* The handler raised in one iteration and was invoked again, returning, in a
\* later one.
C20_Witness ==
  \E s \in Scheds :
    /\ sched[s].kind = "interval"
    /\ sched[s].raised
    /\ sched[s].did = "return"
    /\ sched[s].ncancel = 0
    /\ op = "tick"

\* How late the last iteration of schedule s came: the timestamp its handler
\* was given, less the instant of the call of setIntervalFrame and one period
\* for each iteration so far.
Lateness(s) == lastFrame - (sched[s].at + sched[s].calls * sched[s].delay)

Abs(x) == IF x < 0 THEN -x ELSE x

C19_CountAfterNPeriods ==
  \A s \in Scheds :
    (/\ sched[s].kind = "interval"
     /\ sched[s].delay >= frameEvery
     /\ sched[s].at - sched[s].started < frameEvery
     /\ queue = {}
     /\ lastFrame >= sched[s].at
     /\ (lastFrame - sched[s].at) % sched[s].delay < frameEvery)
      => sched[s].calls = (lastFrame - sched[s].at) \div sched[s].delay

\* ------------------------------------------- more claims about the loop
\* The host has run all that was due at this instant.
Settled == queue = {} /\ NoTimerDue /\ ~RepaintDue

\* C21: a loop with throttle T longer than the repaint interval, started at
\* time 0: once three throttles or more have passed, the number of handler
\* invocations differs from (elapsed time) / T by at most 1.
C21_ThrottleCount ==
  (Settled /\ loop.throttleRef > frameEvery /\ frameEvery > 0
     /\ now >= 3 * loop.throttleRef)
    => Abs(loop.calls * loop.throttleRef - now) <= loop.throttleRef

\* C22 (SpecLive): when the component replaces the callback while the loop
\* runs, every tick from then on invokes the callback of the latest render and
\* not an earlier one, and the replacement itself neither cancels nor adds a
\* registration nor changes the loop's state.
C22_LatestCallbackRuns ==
  [][/\ (loop'.calls > loop.calls => loop'.last = loop.rendered)
     /\ (op' = "render" =>
           /\ <<nextId, timers, rafs, queue, frameOf>>' = <<nextId, timers, rafs, queue, frameOf>>
           /\ loop'.frameRef = loop.frameRef
           /\ loop'.isActive = loop.isActive)]_vars

\* Both callbacks were invoked in one run of the loop, the second one last.
C22_Witness ==
  /\ loop.ran = Callbacks
  /\ loop.last = "second"
  /\ loop.rendered = "second"
  /\ loop.notes = 1
  /\ loop.plain

\* C23 (SpecLive): after the throttle was changed between two ticks, the next
\* invocation of the callback comes no earlier than the new throttle after the
\* previous invocation.
C23_NewThrottleAppliesToNextTick ==
  [][(loop'.calls > loop.calls /\ loop.fresh /\ loop'.gap # Undefined)
        => loop'.gap >= loop.throttleRef]_vars

\* C24 (SpecLive): a loop created with immediate = false is stopped and its
\* callback is not invoked until start() is called; one created with immediate
\* = true runs right after creation; when the component is destroyed the loop
\* is stopped, no registration of it remains and the callback is never invoked
\* again.
C24_ImmediateAndUnmount ==
  /\ (~loop.immediate /\ loop.notes = 0)
        => (~loop.isActive /\ loop.frameRef.null /\ loop.calls = 0 /\ LoopRegs = 0)
  /\ (loop.immediate /\ op = "init")
        => (loop.isActive /\ ~loop.frameRef.null /\ LoopRegs = 1)
  /\ ~loop.mounted => (~loop.isActive /\ loop.frameRef.null /\ LoopRegs = 0)

\* The repaint callbacks the useRafState instance has outstanding.
StateRegs == Cardinality({r \in rafs \cup queue : r.o = "state"})

\* C25 (SpecState): a call of the setter of useRafState leaves the visible
\* state as it is; the calls made before a repaint lead to exactly one commit
\* at that repaint, which for plain values commits the value of the last call;
\* the instance never has more than one repaint callback outstanding.
C25_SetterBatchesToOneCommit ==
  [][/\ (op' = "set" =>
           /\ rafState'.state = rafState.state
           /\ rafState'.commits = rafState.commits
           /\ StateRegs' = 1)
     /\ (op' = "commit" =>
           /\ rafState'.commits = rafState.commits + 1
           /\ rafState.at # lastFrame
           /\ rafState.pending > 0
           /\ rafState.updaters = 0 => rafState'.state = rafState.base)
     /\ StateRegs' <= 1
     /\ (rafState'.mounted /\ rafState'.pending > 0) => StateRegs' = 1]_vars

\* Three calls with plain values were followed by one commit, of the last value.
C25_Witness ==
  /\ op = "commit"
  /\ rafState.sets = 3
  /\ rafState.commits = 1
  /\ rafState.updaters = 0
  /\ rafState.state = rafState.base
  /\ rafState.state # 0

C27_UnmountCancelsPending ==
  [][/\ ~rafState'.mounted => StateRegs' = 0
     /\ ~rafState.mounted =>
          (rafState'.state = rafState.state /\ rafState'.commits = rafState.commits)]_vars

\* The component was unmounted with an update of two calls pending, and a
\* repaint came afterwards.
C27_Witness ==
  /\ ~rafState.mounted
  /\ rafState.pending >= 2
  /\ rafState.commits = 0
  /\ rafState.stateRef # rafState.state
  /\ op = "repaint"

\* The registrations the useFrameTimeout instance has outstanding.
TimeoutRegs ==
  Cardinality({t \in timers : t.o = "hook"}) + Cardinality({r \in rafs \cup queue : r.o = "hook"})

\* C28 (SpecTimeout): when delay or the dependency of useFrameTimeout changes,
\* the pending schedule is cancelled and one is armed for the new delay from
\* that instant, so the handler runs once and no earlier than the new delay
\* after the change; a render that replaces only the handler changes no
\* registration, and the handler that runs is the one of the latest render;
\* unmounting cancels the pending schedule, and the handler does not run
\* afterwards.
C28_TimeoutFollowsDelayAndDeps ==
  [][/\ (op' = "hookHandler" =>
           /\ lastFrame >= frameTimeout.changedAt + frameTimeout.delay
           /\ frameTimeout.fired = 0
           /\ frameTimeout'.last = frameTimeout.handler)
     /\ (op' = "hookRender" =>
           IF frameTimeout'.delay = frameTimeout.delay /\ frameTimeout'.dep = frameTimeout.dep
           THEN <<nextId, timers, rafs, queue, frameOf>>' = <<nextId, timers, rafs, queue, frameOf>>
           ELSE /\ rafs' = {}
                /\ \A t \in timers' : t.o = "hook" => t.due = now + frameTimeout'.delay)
     /\ TimeoutRegs' <= 1
     /\ (frameTimeout'.mounted /\ frameTimeout'.fired = 0) => TimeoutRegs' = 1
     /\ ~frameTimeout'.mounted => TimeoutRegs' = 0
     /\ ~frameTimeout.mounted => frameTimeout'.calls = frameTimeout.calls]_vars

\* The delay was changed while the schedule was pending, the handler was
\* replaced afterwards, and the second handler ran, once.
C28_Witness ==
  /\ op = "hookHandler"
  /\ frameTimeout.renders = 2
  /\ frameTimeout.changedAt > 0
  /\ frameTimeout.delay > 0
  /\ frameTimeout.dep = "a"
  /\ frameTimeout.last = "second"
  /\ frameTimeout.calls = 1

\* C29 (Spec): when the handler of setIntervalFrame calls the interval's
\* cancel during an iteration, the schedule has no registration outstanding
\* once that iteration is over (and so the handler is not invoked again).
C29_CancelInHandlerEndsChain ==
  \A s \in Scheds :
    (op = "tick" /\ sched[s].kind = "interval" /\ sched[s].did = "cancel")
      => SchedRegs(s) = 0

\* C30 (SpecLoop): at the end of a tick whose callback returned, the running
\* average becomes (2 * previous average + delta) / 3, the previous average
\* being delta itself on the first tick of a run; the next tick is armed by a
\* deadline timer of throttle ms when throttle is greater than the new
\* average, and by a repaint request otherwise.
C30_AverageAndArming ==
  [][(op' = "loop" /\ loop'.calls > loop.calls /\ loop'.did = "return") =>
       LET fr == loop.frameRef
           delta == loop'.delta
           prev == IF fr.hasDuration THEN fr.duration ELSE [n |-> delta, d |-> 1]
           next == loop'.frameRef.duration
       IN  /\ loop'.frameRef.hasDuration
           /\ next.n * 3 * prev.d = (2 * prev.n + delta * prev.d) * next.d
           /\ nextId' = nextId + 1
           /\ IF loop.throttleRef * next.d > next.n
              THEN /\ \E t \in timers' :
                        /\ t.id = nextId
                        /\ t.o = "loop"
                        /\ t.k = "tf"
                        /\ t.delay = loop.throttleRef
                        /\ t.due = now + loop.throttleRef
                   /\ rafs' = rafs
              ELSE /\ \E r \in rafs' : r.id = nextId /\ r.o = "loop"
                   /\ timers' = timers]_vars

\* A tick left an average that is not a whole number and, the throttle being
\* greater, armed the next tick through a timer.
C30_Witness ==
  /\ op = "loop"
  /\ loop.did = "return"
  /\ loop.calls >= 2
  /\ loop.frameRef.hasDuration
  /\ loop.frameRef.duration.d = 3
  /\ loop.frameRef.cancel.t = "tf"

\* A tick found the throttle not greater than the average and armed the next
\* tick with a repaint request, under a throttle that is not 0.
C30_WitnessDirect ==
  /\ op = "loop"
  /\ loop.did = "return"
  /\ loop.throttleRef > 0
  /\ loop.frameRef.hasDuration
  /\ loop.frameRef.duration.n > 0
  /\ loop.frameRef.cancel.t = "frame"

\* C31 (Spec): the iteration of a setIntervalFrame of period p > 0 that runs at
\* timestamp t arms the next deadline timer with delay p - ((t - started) mod p),
\* which is greater than 0 and at most p and makes the deadline fall on
\* started + m * p; with p = 0 the delay is 0, and the handler does not run
\* again in the same repaint.
C31_DelayAfterIteration ==
  [][\A s \in Scheds :
       (op' = "tick" /\ sched[s].kind = "interval") =>
         LET p == sched[s].delay
             elapsed == lastFrame - sched[s].started
         IN  \E t \in timers' :
               /\ t.id = nextId
               /\ t.o = s
               /\ IF p > 0
                  THEN /\ t.delay = p - (elapsed % p)
                       /\ t.delay > 0
                       /\ t.delay <= p
                       /\ (t.due - sched[s].started) % p = 0
                  ELSE /\ t.delay = 0
                       /\ t.due = now
                       /\ {r \in queue' : r.o = s} = {}]_vars

\* An iteration that ran 1 ms late on its grid of period 2 armed the next
\* deadline 1 ms ahead.
C31_Witness ==
  \E s \in Scheds :
    /\ op = "tick"
    /\ sched[s].kind = "interval"
    /\ sched[s].delay = 2
    /\ sched[s].calls >= 1
    /\ \E t \in timers : t.o = s /\ t.delay = 1 /\ (t.due - sched[s].started) % 2 = 0

\* C32 (Spec): a setIntervalFrame chain never has more than one registration
\* outstanding (a deadline timer or a repaint callback); the deadline timer of
\* the next iteration is armed only by the step that runs the handler of this
\* one (or by the call that made the chain), and no second iteration of the
\* chain is left in the repaint that ran one.
C32_OneIterationAtATime ==
  [][\A s \in Scheds :
       sched'[s].kind = "interval" =>
         /\ SchedRegs(s)' <= 1
         /\ (op' = "tick" =>
               /\ sched'[s].calls = sched[s].calls + 1
               /\ {r \in queue' : r.o = s} = {})
         /\ (\E t \in timers' : t.o = s /\ t.id >= nextId)
               => op' \in {"schedule", "tick"}]_vars

\* The second iteration of a chain ran, one of the two handlers raised, and
\* the chain has its one registration.
C32_Witness ==
  \E s \in Scheds :
    /\ op = "tick"
    /\ sched[s].kind = "interval"
    /\ sched[s].calls >= 2
    /\ sched[s].raised
    /\ sched[s].ncancel = 0
    /\ SchedRegs(s) = 1

\* C33 (SpecPair): calling the cancel handle of one schedule, pending, fired
\* or cancelled before, leaves every registration of the other schedule and
\* the other schedule itself as they were.
C33_CancelIsSelective ==
  [][\A s \in Pair, o \in Pair :
       (s # o /\ sched'[s].ncancel > sched[s].ncancel) =>
         /\ {t \in timers' : t.o = o} = {t \in timers : t.o = o}
         /\ {r \in rafs' : r.o = o} = {r \in rafs : r.o = o}
         /\ {r \in queue' : r.o = o} = {r \in queue : r.o = o}
         /\ sched'[o] = sched[o]]_vars

\* The handle of a timeout that had fired was called while a timeout made
\* later was pending, which still is.
C33_Witness ==
  /\ op = "cancel"
  /\ sched["s1"].kind = "timeout"
  /\ sched["s1"].calls = 1
  /\ sched["s1"].ncancel = 1
  /\ sched["s2"].kind = "timeout"
  /\ sched["s2"].at > sched["s1"].at
  /\ sched["s2"].calls = 0
  /\ sched["s2"].ncancel = 0
  /\ SchedRegs("s2") = 1

\* C34 (SpecLeftAlone): a useRafTimer that was started and is left alone
\* completes (the loop is stopped and onComplete was called) when the host
\* fires the timers that are due, with or without repaints; when no repaint
\* was delivered since the start it completes with elapsed = duration.
C34_CompletesWithoutRepaints ==
  /\ [](op = "deadline" =>
          /\ ~loop.isActive
          /\ timer.completes >= 1
          /\ (timer.starts = 1 /\ loop.calls = 0) => timer.elapsed = timer.duration)
  /\ (loop.isActive /\ timer.starts = 1 /\ timer.at + timer.duration <= MaxTimerTime)
       ~> (~loop.isActive /\ timer.completes = 1 /\ timer.elapsed >= timer.duration)

\* The timer completed by its deadline without a single tick.
C34_Witness ==
  /\ op = "deadline"
  /\ timer.starts = 1
  /\ loop.calls = 0
  /\ lastFrame = -1
  /\ timer.completes = 1
  /\ timer.elapsed = timer.duration
  /\ ~loop.isActive

\* C35 (SpecTimer): when the timer completes by its duration, onUpdate is
\* called with the final elapsed, then the loop is stopped and the observer
\* told false, then onComplete is called; after onComplete no onUpdate is
\* called until start() or reset() is called.
C35_CompletionOrder ==
  [][/\ (op' = "deadline" =>
           /\ timer'.trail = <<"update", "inactive", "complete">>
           /\ timer'.updates = timer.updates + 1
           /\ timer'.completes = timer.completes + 1)
     /\ (/\ timer.trail # <<>>
         /\ timer.trail[Len(timer.trail)] = "complete"
         /\ op' \notin {"start", "reset"})
          => timer'.updates = timer.updates]_vars

\* The timer completed by its duration after ticks, and time went on without
\* another update.
C35_Witness ==
  /\ timer.trail = <<"update", "inactive", "complete">>
  /\ timer.updates >= 2
  /\ timer.completes = 1
  /\ timer.last = "start"
  /\ now > timer.at + timer.duration
  /\ op = "repaint"

\* C36 (SpecLoop): the first invocation of the callback after every start()
\* that started the loop receives delta = 0, and finds no running average of
\* an earlier run.
C36_FirstDeltaIsZero ==
  [][(loop'.calls > loop.calls /\ loop.runTs = Undefined)
        => (loop'.delta = 0 /\ ~loop.frameRef.hasDuration)]_vars

C37_WitnessUnmount ==
  /\ timer.unmounted
  /\ timer.last = "unmount"
  /\ timer.completes = 0
  /\ timer.updates >= 1
  /\ now > timer.at + timer.duration
  /\ Deadlines = {}

\* ----------------------------------------- the observer of one useRafLoop
\* A mounted useRafLoop whose owner calls start() and stop() and destroys
\* the component, and whose callback returns, raises, stops or restarts the
\* loop.
NotesStart ==
  /\ loop.mounted
  /\ UserStart

NotesStop ==
  /\ loop.mounted
  /\ UserStop

InitNotes == InitLive

NextNotes ==
  \/ NotesStart
  \/ NotesStop
  \/ LiveUnmount
  \/ \E beh \in LoopBehaviours : DispatchLoop(beh)
  \/ Host

SpecNotes == InitNotes /\ [][NextNotes]_vars

\* C38: the notifications of one useRafLoop's setActive observer alternate
\* true, false, true, ... beginning with true: none repeats the value of
\* the one before it, so the observer was last told true exactly when it was
\* told an odd number of times; one step makes at most two notifications.
C38_NotificationsAlternate ==
  /\ loop.alternates
  /\ loop.isActive <=> (loop.notes % 2 = 1)
  /\ loop.isActive <=> ~loop.frameRef.null

\* The observer was told true, false, true, false, the last time by the
\* unmount of a loop that had ticked.
C38_Witness ==
  /\ op = "unmount"
  /\ loop.notes = 4
  /\ loop.calls >= 1
  /\ ~loop.isActive

\* ------------------------------------------ a deadline without repaints
\* The deadline timer of a setTimeoutFrame has fired and the repaint it
\* requested is pending (Awaiting), or is in the batch of the repaint being
\* dispatched (Dispatching).
TimeoutFrames(s, set) ==
  {r \in set : /\ sched[s].kind = "timeout"
               /\ frameOf[sched[s].cancel.id] # 0
               /\ r.id = frameOf[sched[s].cancel.id]}

Awaiting(s) == TimeoutFrames(s, rafs) # {}
Dispatching(s) == TimeoutFrames(s, queue) # {}

\* C39: once the deadline of a setTimeoutFrame has fired, and for as long as
\* no repaint comes, the handler is not invoked and the request stays
\* pending; the first repaint takes the request into its batch and invokes
\* the handler, once and for all; a Cancel called while the request is
\* pending removes it, and the handler is never invoked after.
C39_DeadlineAwaitsRepaint ==
  [][\A s \in DOMAIN sched :
       /\ (sched'[s].kind = "timeout" /\ sched'[s].calls > sched[s].calls)
            => (Dispatching(s) /\ sched[s].calls = 0 /\ lastFrame = now)
       /\ (Awaiting(s) /\ op' # "repaint" /\ sched'[s].ncancel = sched[s].ncancel)
            => (Awaiting(s)' /\ sched'[s].calls = 0)
       /\ (Awaiting(s) /\ op' = "repaint") => Dispatching(s)'
       /\ Dispatching(s)
            => /\ now' = now
               /\ \/ Dispatching(s)' /\ sched'[s].calls = 0
                  \/ /\ sched'[s].calls = 1
                     /\ {r \in rafs' \cup queue' \cup timers' : r.o = s} = {}
       /\ (Awaiting(s) /\ sched'[s].ncancel > sched[s].ncancel)
            => {r \in rafs' \cup queue' \cup timers' : r.o = s} = {}
       /\ (sched[s].kind = "timeout" /\ sched[s].ncancel > 0 /\ sched[s].calls = 0)
            => sched'[s].calls = 0]_vars

\* The deadline of one schedule fired; with its request pending, and no
\* repaint, another schedule was made and time passed; the repaint that came
\* then invoked the handler.
C39_Witness ==
  \E s, other \in DOMAIN sched :
    /\ op = "handler"
    /\ sched[s].kind = "timeout"
    /\ sched[s].calls = 1
    /\ sched[other].kind # "none"
    /\ sched[other].cancel.id > frameOf[sched[s].cancel.id]
    /\ sched[other].at >= sched[s].at + sched[s].delay
    /\ sched[other].at < now

\* Cancel was called while the request was pending, after time had passed
\* without a repaint; the repaint that came later invoked nothing.
C39_WitnessCancel ==
  \E s \in DOMAIN sched :
    /\ op = "repaint"
    /\ sched[s].kind = "timeout"
    /\ sched[s].ncancel = 1
    /\ sched[s].calls = 0
    /\ frameOf[sched[s].cancel.id] # 0
    /\ queue = {}
    /\ now > sched[s].at + sched[s].delay

\* -------------------------------------------------- a loop that keeps going
\* A useRafLoop whose callback returns, or calls start() and returns, on a
\* host that keeps going: the owner calls start() and stop() in any order,
\* MaxNotes notifications long, and the host does not stall for ever.
RunStart ==
  /\ loop.notes < MaxNotes
  /\ UserStart

RunStop ==
  /\ loop.notes < MaxNotes
  /\ UserStop

InitRunning ==
  /\ InitHost
  /\ sched = [s \in Scheds |-> NoSched]
  /\ \E throttle \in Throttles : loop = NewLoop(throttle)
  /\ timer = NoTimer
  /\ rafState = NoRafState
  /\ frameTimeout = NoFrameTimeout

\* Time passes on a host that keeps going: not while a timer is due, nor
\* while a repaint request waits for the repaint of this instant.
RunAdvance ==
  /\ now < MaxRunTime
  /\ \A t \in timers : t.due > now
  /\ rafs = {} \/ lastFrame = now
  /\ Advance

RunHost ==
  \/ RunAdvance
  \/ Repaint
  \/ \E t \in timers : FireTimer(t)

NextRunning ==
  \/ RunStart
  \/ RunStop
  \/ \E beh \in {"return", "start"} : DispatchLoop(beh)
  \/ RunHost

HostRuns == RunHost \/ DispatchLoop("return")

SpecRunning == InitRunning /\ [][NextRunning]_vars /\ WF_vars(HostRuns)

\* C40: while the loop is Running and its callback neither stops it nor
\* raises, exactly one registration leading to the next tick is pending
\* (after start() and after every tick, whatever start()/stop() cycles came
\* before); start() does not invoke the callback; and on a host that keeps
\* going a Running loop, just started or between two ticks, comes to its next
\* tick unless it is stopped (the clock and the ids of the model are bounded,
\* so the state must leave room for one more tick).
C40_KeepsTicking ==
  /\ [](loop.isActive => LoopRegs = 1)
  /\ [][op' = "start" => loop'.calls = loop.calls]_vars
  /\ (/\ loop.isActive
      /\ op # "loop"
      /\ now + loop.throttleRef < MaxRunTime
      /\ nextId < IdLimit)
       ~> (op = "loop" \/ ~loop.isActive)

\* After start(), stop(), start() the throttled loop has ticked twice, the
\* second time from a deadline timer, and waits for the next tick.
C40_Witness ==
  /\ loop.notes = 3
  /\ loop.isActive
  /\ loop.calls >= 2
  /\ loop.throttleRef > 0
  /\ loop.gap >= loop.throttleRef
  /\ op = "loop"
  /\ LoopRegs = 1

=============================================================================
